---- MODULE Spec2Model ----
(***************************************************************************)
(* Model of the ID verification wizard: the comparison and verdict logic   *)
(* of IdVerificationForm.tsx and the OCR text extraction and upload        *)
(* workflow of DocumentUpload (src/unnamed/part_001).                      *)
(*                                                                         *)
(* JavaScript strings are TLA+ strings; the character at index i of s is   *)
(* SubSeq(s, i, i).  An optional string (string | undefined) is a tuple of *)
(* zero or one strings: << >> is undefined, <<s>> is the string s.         *)
(***************************************************************************)
EXTENDS Integers, Sequences, FiniteSets, TLC

VARIABLES
    step,                \* IdVerificationForm: 'upload' | 'form' | 'results'
    extractedData,       \* IdVerificationForm: ExtractedData
    formData,            \* IdVerificationForm: FormData
    verificationResults, \* IdVerificationForm: VerificationResults | null
    isProcessing,        \* IdVerificationForm: boolean
    isUploading,         \* DocumentUpload: boolean
    uploadProgress,      \* DocumentUpload: number
    uploadedFile,        \* DocumentUpload: File | null
    previewUrl,          \* DocumentUpload: string
    ocr,                 \* pending Tesseract.recognize calls
    timers,              \* pending setTimeout(onDocumentProcessed, 500) callbacks
    verify,              \* pending handleVerify continuation (after the await)
    toast,               \* title of the last toast shown
    console,             \* what the last finished processDocument logged
    input,               \* arguments of the pure function under study
    output               \* its result

vars == <<step, extractedData, formData, verificationResults, isProcessing,
          isUploading, uploadProgress, uploadedFile, previewUrl,
          ocr, timers, verify, toast, console, input, output>>

formVars == <<step, extractedData, formData, verificationResults, isProcessing>>
uploadVars == <<isUploading, uploadProgress, uploadedFile, previewUrl>>
asyncVars == <<ocr, timers, verify, toast, console>>

(***************************************************************************)
(* Bounds of the model.                                                    *)
(***************************************************************************)
MaxLen == 2        \* longest enumerated comparator argument
MaxLines == 2      \* most lines in an enumerated OCR text
MaxPending == 2    \* most OCR calls plus timers in flight

(***************************************************************************)
(* Characters and strings.                                                 *)
(***************************************************************************)
Char(s, i) == SubSeq(s, i, i)

InStr(c, chars) == \E i \in 1..Len(chars) : Char(chars, i) = c

UpperChars == "ABCDEFGHIJKLMNOPQRSTUVWXYZ"
LowerChars == "abcdefghijklmnopqrstuvwxyz"
DigitChars == "0123456789"

IsDigit(c) == InStr(c, DigitChars)
IsUpper(c) == InStr(c, UpperChars)
IsLower(c) == InStr(c, LowerChars)
IsLetter(c) == IsUpper(c) \/ IsLower(c)
\* \s of a regular expression
SpaceChars == " \n\t\r"
IsSpace(c) == InStr(c, SpaceChars)
\* \w of a regular expression
IsWord(c) == IsLetter(c) \/ IsDigit(c) \/ c = "_"

\* String.prototype.toLowerCase, one character
LowerOf(c) ==
    IF IsUpper(c)
    THEN Char(LowerChars, CHOOSE i \in 1..Len(UpperChars) : Char(UpperChars, i) = c)
    ELSE c

RECURSIVE toLowerCase(_)
toLowerCase(s) ==
    IF s = "" THEN ""
    ELSE LowerOf(Char(s, 1)) \o toLowerCase(SubSeq(s, 2, Len(s)))

\* s.replace(/[^chars]/g, ''): keep only the characters of a class
RECURSIVE Keep(_, _)
Keep(s, chars) ==
    IF s = "" THEN ""
    ELSE (IF InStr(Char(s, 1), chars) THEN Char(s, 1) ELSE "")
         \o Keep(SubSeq(s, 2, Len(s)), chars)

\* String.prototype.includes
includes(s, t) ==
    \E i \in 0..(Len(s) - Len(t)) : SubSeq(s, i + 1, i + Len(t)) = t

\* optional strings
Undefined == << >>
Some(s) == <<s>>
\* !x for x : string | undefined
Falsy(opt) == opt = Undefined \/ opt[1] = ""

(***************************************************************************)
(* Field comparator (IdVerificationForm.tsx).                              *)
(***************************************************************************)
normalizeText(text) == Keep(toLowerCase(text), LowerChars \o DigitChars)

normalizeDate(date) == Keep(date, DigitChars)

normalizePhone(phone) == Keep(phone, DigitChars)

compareFieldsNoSpaceTest(extracted, entered) ==
    IF Falsy(extracted) \/ entered = "" THEN FALSE
    ELSE LET extractedNorm == normalizeText(extracted[1])
             enteredNorm == normalizeText(entered)
         IN  \/ includes(extractedNorm, enteredNorm)
             \/ includes(enteredNorm, extractedNorm)
             \/ extractedNorm = enteredNorm

compareFieldsOneWay(extracted, entered) ==
    IF Falsy(extracted) \/ entered = "" THEN FALSE
    ELSE IF includes(extracted[1], " ") \/ includes(entered, " ")
         THEN LET extractedNorm == normalizeText(extracted[1])
                  enteredNorm == normalizeText(entered)
              IN  includes(extractedNorm, enteredNorm)
         ELSE normalizeText(extracted[1]) = normalizeText(entered)

compareFieldsNoGuard(extracted, entered) ==
    IF extracted = Undefined THEN FALSE
    ELSE IF includes(extracted[1], " ") \/ includes(entered, " ")
         THEN LET extractedNorm == normalizeText(extracted[1])
                  enteredNorm == normalizeText(entered)
              IN  \/ includes(extractedNorm, enteredNorm)
                  \/ includes(enteredNorm, extractedNorm)
                  \/ extractedNorm = enteredNorm
         ELSE normalizeText(extracted[1]) = normalizeText(entered)

compareFields(extracted, entered) ==
    IF Falsy(extracted) \/ entered = "" THEN FALSE
    ELSE IF includes(extracted[1], " ") \/ includes(entered, " ")
         THEN LET extractedNorm == normalizeText(extracted[1])
                  enteredNorm == normalizeText(entered)
              IN  \/ includes(extractedNorm, enteredNorm)
                  \/ includes(enteredNorm, extractedNorm)
                  \/ extractedNorm = enteredNorm
         ELSE normalizeText(extracted[1]) = normalizeText(entered)

compareDatesContain(extracted, entered) ==
    IF Falsy(extracted) \/ entered = "" THEN FALSE
    ELSE LET extractedNorm == normalizeDate(extracted[1])
             enteredNorm == normalizeDate(entered)
         IN  includes(extractedNorm, enteredNorm) \/ includes(enteredNorm, extractedNorm)

compareDates(extracted, entered) ==
    IF Falsy(extracted) \/ entered = "" THEN FALSE
    ELSE LET extractedNorm == normalizeDate(extracted[1])
             enteredNorm == normalizeDate(entered)
         IN  extractedNorm = enteredNorm

comparePhonesExact(extracted, entered) ==
    IF Falsy(extracted) \/ entered = "" THEN FALSE
    ELSE normalizePhone(extracted[1]) = normalizePhone(entered)

comparePhones(extracted, entered) ==
    IF Falsy(extracted) \/ entered = "" THEN FALSE
    ELSE LET extractedNorm == normalizePhone(extracted[1])
             enteredNorm == normalizePhone(entered)
         IN  \/ includes(extractedNorm, enteredNorm)
             \/ includes(enteredNorm, extractedNorm)
             \/ extractedNorm = enteredNorm

Fields == {"name", "dateOfBirth", "idNumber", "phoneNumber"}

\* the comparator handleVerify applies to each field
compare(field, extracted, entered) ==
    CASE field = "name" -> compareFields(extracted, entered)
      [] field = "dateOfBirth" -> compareDates(extracted, entered)
      [] field = "idNumber" -> compareFields(extracted, entered)
      [] field = "phoneNumber" -> comparePhones(extracted, entered)

(***************************************************************************)
(* Text normalizer (DocumentUpload, cleanOCRText).                         *)
(***************************************************************************)
Tail1(s) == SubSeq(s, 2, Len(s))

RECURSIVE SkipSpace(_)
SkipSpace(s) ==
    IF s # "" /\ IsSpace(Char(s, 1)) THEN SkipSpace(Tail1(s)) ELSE s

\* s.replace(/\s+/g, ' ')
RECURSIVE CollapseSpace(_)
CollapseSpace(s) ==
    IF s = "" THEN ""
    ELSE IF IsSpace(Char(s, 1)) THEN " " \o CollapseSpace(SkipSpace(s))
    ELSE Char(s, 1) \o CollapseSpace(Tail1(s))

\* s.replace(/[from]/g, to)
RECURSIVE ReplaceChars(_, _, _)
ReplaceChars(s, from, to) ==
    IF s = "" THEN ""
    ELSE (IF InStr(Char(s, 1), from) THEN to ELSE Char(s, 1))
         \o ReplaceChars(Tail1(s), from, to)

\* the last index of a line feed inside the whitespace run that starts at i,
\* or best: where /\n\s*\n/ ends when it starts at i - 1
RECURSIVE LastNewlineInRun(_, _, _)
LastNewlineInRun(s, i, best) ==
    IF i > Len(s) \/ ~IsSpace(Char(s, i)) THEN best
    ELSE LastNewlineInRun(s, i + 1, IF Char(s, i) = "\n" THEN i ELSE best)

\* s.replace(/\n\s*\n/g, '\n')
RECURSIVE CollapseBlankLines(_)
RECURSIVE CollapseBlankLinesAt(_, _)
CollapseBlankLinesAt(s, last) ==
    IF Char(s, 1) = "\n" /\ last > 0
    THEN "\n" \o CollapseBlankLines(SubSeq(s, last + 1, Len(s)))
    ELSE Char(s, 1) \o CollapseBlankLines(Tail1(s))

CollapseBlankLines(s) ==
    IF s = "" THEN "" ELSE CollapseBlankLinesAt(s, LastNewlineInRun(s, 2, 0))

RECURSIVE TrimRight(_)
TrimRight(s) ==
    IF s # "" /\ IsSpace(Char(s, Len(s))) THEN TrimRight(SubSeq(s, 1, Len(s) - 1)) ELSE s

\* String.prototype.trim
trim(s) == TrimRight(SkipSpace(s))

cleanOCRText(text) ==
    trim(CollapseBlankLines(
        ReplaceChars(ReplaceChars(CollapseSpace(text), "|", "I"), "0O", "0")))

\* the index of the first occurrence of a character, or 0
RECURSIVE IndexOfChar(_, _, _)
IndexOfChar(s, c, i) ==
    IF i > Len(s) THEN 0
    ELSE IF Char(s, i) = c THEN i
    ELSE IndexOfChar(s, c, i + 1)

\* String.prototype.split with a one-character separator
RECURSIVE split(_, _)
RECURSIVE SplitAt(_, _, _)
SplitAt(s, sep, i) ==
    IF i = 0 THEN <<s>>
    ELSE <<SubSeq(s, 1, i - 1)>> \o split(SubSeq(s, i + 1, Len(s)), sep)

split(s, sep) == SplitAt(s, sep, IndexOfChar(s, sep, 1))

Map(seq, Op(_)) == [k \in 1..Len(seq) |-> Op(seq[k])]

LongerThanTwo(line) == Len(line) > 2

\* cleanedText.split('\n').map(line => line.trim()).filter(line => line.length > 2)
LinesOf(cleanedText) == SelectSeq(Map(split(cleanedText, "\n"), trim), LongerThanTwo)

(***************************************************************************)
(* Regular expressions of the extractor.  A pattern is modelled by the     *)
(* length of its match at a start index (0: no match there); matchAll      *)
(* scans left to right and resumes after each match.                       *)
(***************************************************************************)
CharAt(s, i) == IF i >= 1 /\ i <= Len(s) THEN Char(s, i) ELSE ""

DigitsAt(s, i, n) == \A k \in 0..(n - 1) : IsDigit(CharAt(s, i + k))

\* \b between index i - 1 and index i
Boundary(s, i) == IsWord(CharAt(s, i - 1)) # IsWord(CharAt(s, i))

\* the index after an optional character of a class at index i
SkipOptional(s, i, chars) == IF InStr(CharAt(s, i), chars) THEN i + 1 ELSE i

RECURSIVE ScanFrom(_, _, _)
ScanFrom(n, lens, i) ==
    IF i > n THEN << >>
    ELSE IF lens[i] > 0 THEN <<i>> \o ScanFrom(n, lens, i + lens[i])
    ELSE ScanFrom(n, lens, i + 1)

MatchesAt(s, lens, starts) ==
    [k \in 1..Len(starts) |-> SubSeq(s, starts[k], starts[k] + lens[starts[k]] - 1)]

\* the matched texts of a global pattern, in order
MatchAll(s, lens) == MatchesAt(s, lens, ScanFrom(Len(s), lens, 1))

Lens(s, Op(_, _)) == [i \in 1..Len(s) |-> Op(s, i)]

\* the three groups of four digits from i, j, k, between word boundaries
AadhaarGroups(s, i, j, k) ==
    IF /\ Boundary(s, i) /\ DigitsAt(s, i, 4) /\ DigitsAt(s, j, 4)
       /\ DigitsAt(s, k, 4) /\ Boundary(s, k + 4)
    THEN k + 4 - i ELSE 0

AadhaarFrom(s, i, j) == AadhaarGroups(s, i, j, SkipOptional(s, j + 4, SpaceChars))

\* /\b(\d{4}\s?\d{4}\s?\d{4})\b/
AadhaarSpacedLen(s, i) == AadhaarFrom(s, i, SkipOptional(s, i + 4, SpaceChars))

\* /\b(\d{n})\b/
DigitRunLen(s, i, n) ==
    IF Boundary(s, i) /\ DigitsAt(s, i, n) /\ Boundary(s, i + n) THEN n ELSE 0

TwelveDigitsLen(s, i) == DigitRunLen(s, i, 12)
TenDigitsLen(s, i) == DigitRunLen(s, i, 10)

IsMobileLead(c) == InStr(c, "6789")

\* /\b([6-9]\d{9})\b/
MobileLen(s, i) ==
    IF IsMobileLead(CharAt(s, i)) THEN DigitRunLen(s, i, 10) ELSE 0

MobilePrefixedFrom(s, i, j) ==
    IF /\ i + 2 <= Len(s) /\ SubSeq(s, i, i + 2) = "+91"
       /\ IsMobileLead(CharAt(s, j)) /\ DigitsAt(s, j, 10)
    THEN j + 10 - i ELSE 0

\* /\+91[\s\-]?([6-9]\d{9})/
MobilePrefixedLen(s, i) ==
    MobilePrefixedFrom(s, i, SkipOptional(s, i + 3, SpaceChars \o "-"))

MobileSplitFrom(s, i, j) ==
    IF /\ Boundary(s, i) /\ IsMobileLead(CharAt(s, i)) /\ DigitsAt(s, i, 5)
       /\ DigitsAt(s, j, 5) /\ Boundary(s, j + 5)
    THEN j + 5 - i ELSE 0

\* /\b([6-9]\d{4}[\s\-]?\d{5})\b/
MobileSplitLen(s, i) ==
    MobileSplitFrom(s, i, SkipOptional(s, i + 5, SpaceChars \o "-"))

\* the index after \d{1,2} followed by sep, starting at i, or 0
AfterDayOrMonth(s, i, sep) ==
    IF i = 0 THEN 0
    ELSE IF DigitsAt(s, i, 2) /\ CharAt(s, i + 2) = sep THEN i + 3
    ELSE IF DigitsAt(s, i, 1) /\ CharAt(s, i + 1) = sep THEN i + 2
    ELSE 0

DateYearAt(s, i, y) ==
    IF /\ Boundary(s, i) /\ y # 0 /\ DigitsAt(s, y, 4) /\ Boundary(s, y + 4)
    THEN y + 4 - i ELSE 0

\* /\b(\d{1,2}<sep>\d{1,2}<sep>\d{4})\b/ for sep '/' or '-'
DateLen(s, i, sep) ==
    DateYearAt(s, i, AfterDayOrMonth(s, AfterDayOrMonth(s, i, sep), sep))

(***************************************************************************)
(* Field extractor (DocumentUpload, extractDataFromText).                  *)
(***************************************************************************)
skipNames ==
    <<"government of india", "unique identification authority", "aadhaar",
      "aadhar", "identity card", "permanent account number", "pan card",
      "driving license", "voter id">>

\* skipNames.some(skip => lower.includes(skip))
HasSkipName(lower) == \E k \in 1..Len(skipNames) : includes(lower, skipNames[k])

\* s.replace(/[chars]/g, '')
RECURSIVE Drop(_, _)
Drop(s, chars) ==
    IF s = "" THEN ""
    ELSE (IF InStr(Char(s, 1), chars) THEN "" ELSE Char(s, 1)) \o Drop(Tail1(s), chars)

AllDigits(s) == \A i \in 1..Len(s) : IsDigit(Char(s, i))

\* the first element of a sequence, if any, as an optional
FirstOf(seq) == IF Len(seq) = 0 THEN Undefined ELSE Some(seq[1])

\* the result of the first pattern (in order) that gave a value
RECURSIVE FirstPattern(_, _)
FirstPattern(results, k) ==
    IF k > Len(results) THEN Undefined
    ELSE IF results[k] # Undefined THEN results[k]
    ELSE FirstPattern(results, k + 1)

\* patterns.aadhaarNumber, each as the match[1] strings of matchAll
AadhaarMatches(s) ==
    << MatchAll(s, Lens(s, AadhaarSpacedLen)),
       MatchAll(s, Lens(s, TwelveDigitsLen)) >>

AadhaarOf(m) == Drop(m, SpaceChars)

IsTwelveDigits(aadhaar) == Len(aadhaar) = 12 /\ AllDigits(aadhaar)

ValidAadhaar(m) == IsTwelveDigits(AadhaarOf(m))

FirstAadhaarUnstripped(matches) == FirstOf(SelectSeq(matches, ValidAadhaar))

FirstAadhaar(matches) == FirstOf(Map(SelectSeq(matches, ValidAadhaar), AadhaarOf))

\* the Aadhaar loop: first pattern with a valid match, first valid match of it
ExtractIdNumber(s) == FirstPattern(Map(AadhaarMatches(s), FirstAadhaar), 1)

\* the last n characters
Last(s, n) == SubSeq(s, Len(s) - n + 1, Len(s))

LastTen(m) == Last(m, 10)

\* patterns.phoneNumber, each as the match[1] strings of matchAll
PhoneMatches(s) ==
    << MatchAll(s, Lens(s, MobileLen)),
       Map(MatchAll(s, Lens(s, MobilePrefixedLen)), LastTen),
       MatchAll(s, Lens(s, MobileSplitLen)),
       MatchAll(s, Lens(s, TenDigitsLen)) >>

PhoneOf(m) == Drop(m, SpaceChars \o "-")

IsMobileNumberAnyLead(phone) == Len(phone) = 10 /\ AllDigits(phone)

IsMobileNumber(phone) ==
    Len(phone) = 10 /\ IsMobileLead(Char(phone, 1)) /\ AllDigits(phone)

ValidPhone(m) == IsMobileNumber(PhoneOf(m))

FirstPhone(matches) == FirstOf(Map(SelectSeq(matches, ValidPhone), PhoneOf))

\* the phone loop
ExtractPhoneNumber(s) == FirstPattern(Map(PhoneMatches(s), FirstPhone), 1)

DigitValue(c) == (CHOOSE i \in 1..10 : Char(DigitChars, i) = c) - 1

\* parseInt of a string: its leading decimal digits; -1 stands for NaN, which
\* like NaN fails every >= comparison with a year
RECURSIVE ParseDigits(_, _, _)
ParseDigits(s, i, acc) ==
    IF IsDigit(CharAt(s, i)) THEN ParseDigits(s, i + 1, acc * 10 + DigitValue(Char(s, i)))
    ELSE acc

ParseTrimmed(t) == IF IsDigit(CharAt(t, 1)) THEN ParseDigits(t, 1, 0) ELSE -1

parseInt(s) == ParseTrimmed(SkipSpace(s))

MinBirthYear == 1900
MaxBirthYear == 2010

IsBirthYearNoUpperBound(year) == year >= MinBirthYear

IsBirthYear(year) == year >= MinBirthYear /\ year <= MaxBirthYear

\* dateStr.split(/[\/\-]/)
SplitDate(dateStr) == split(ReplaceChars(dateStr, "-", "/"), "/")

ValidParts(parts) == Len(parts) = 3 /\ IsBirthYear(parseInt(parts[3]))

\* the validation of one date candidate in the date of birth loop
ValidDate(dateStr) ==
    IF includes(dateStr, "/") \/ includes(dateStr, "-")
    THEN ValidParts(SplitDate(dateStr))
    ELSE Len(dateStr) = 4 /\ IsBirthYear(parseInt(dateStr))

SlashDateLen(s, i) == DateLen(s, i, "/")
DashDateLen(s, i) == DateLen(s, i, "-")

\* the dash pattern ahead of the slash pattern
DateMatchesDashFirst(s) ==
    << MatchAll(s, Lens(s, DashDateLen)),
       MatchAll(s, Lens(s, SlashDateLen)) >>

\* the global patterns at the head of patterns.dateOfBirth
DateMatches(s) ==
    << MatchAll(s, Lens(s, SlashDateLen)),
       MatchAll(s, Lens(s, DashDateLen)) >>

FirstDate(matches) == FirstOf(SelectSeq(matches, ValidDate))

\* what the loop ends with after the two global patterns
DateOrTypeError(first) ==
    IF first # Undefined
    THEN [threw |-> FALSE, value |-> first]
    ELSE [threw |-> TRUE, value |-> Undefined]

\* The date of birth loop.  The third pattern of patterns.dateOfBirth has no
\* g flag, and String.prototype.matchAll throws a TypeError for a regular
\* expression without it: the loop ends with the first valid slash or dash
\* date, or with that exception; the fourth pattern is never tried.
ExtractDateOfBirth(s) == DateOrTypeError(FirstPattern(Map(DateMatches(s), FirstDate), 1))

RECURSIVE LowerRunEnd(_, _)
LowerRunEnd(s, i) == IF IsLower(CharAt(s, i)) THEN LowerRunEnd(s, i + 1) ELSE i - 1

RECURSIVE LetterRunEnd(_, _)
LetterRunEnd(s, i) == IF IsLetter(CharAt(s, i)) THEN LetterRunEnd(s, i + 1) ELSE i - 1

\* a head character at i and a run of at least min more up to runEnd
RunWord(i, min, headOk, runEnd) == IF headOk /\ runEnd >= i + min THEN runEnd ELSE 0

\* The last index of the word that starts at i, or 0.  mode "proper":
\* [A-Z][a-z]+, mode "proper3": [A-Z][a-z]{2,}, mode "letters": [A-Z][a-z]+
\* under the i flag.  The runs are maximal: every such word in the patterns
\* is followed by \s, \b or $, which no shorter run can satisfy.
WordEndAt(s, i, mode) ==
    IF mode = "letters"
    THEN RunWord(i, 1, IsLetter(CharAt(s, i)), LetterRunEnd(s, i + 1))
    ELSE RunWord(i, IF mode = "proper3" THEN 2 ELSE 1,
                 IsUpper(CharAt(s, i)), LowerRunEnd(s, i + 1))

\* the last indices of up to n successive words from i, each separated from
\* the next by one \s character
RECURSIVE WordEnds(_, _, _, _)
RECURSIVE WordEndsAfter(_, _, _, _)
WordEndsAfter(s, e, n, mode) ==
    IF e = 0 THEN << >>
    ELSE <<e>> \o (IF IsSpace(CharAt(s, e + 1))
                   THEN WordEnds(s, e + 2, n - 1, mode) ELSE << >>)

WordEnds(s, i, n, mode) ==
    IF n = 0 THEN << >> ELSE WordEndsAfter(s, WordEndAt(s, i, mode), n, mode)

\* two or more of the words end the string
EndAt(ends, n) == \E k \in 2..Len(ends) : ends[k] = n

\* /^[A-Z][a-z]+(?:\s[A-Z][a-z]+){1,3}$/.test(s)
IsProperName(s) == EndAt(WordEnds(s, 1, 4, "proper"), Len(s))

\* patterns.name[0]: match[1] of the whole-line pattern
WholeLineName(line) == IF IsProperName(line) THEN Some(line) ELSE Undefined

RECURSIVE LabelRunEnd(_, _)
LabelRunEnd(s, i) ==
    IF InStr(CharAt(s, i), SpaceChars \o ":") THEN LabelRunEnd(s, i + 1) ELSE i - 1

\* group 1 from j over two to four words
LabeledGroup(s, j, ends) ==
    IF Len(ends) >= 2 THEN Some(SubSeq(s, j, ends[Len(ends)])) ELSE Undefined

LabeledAfter(s, i, runEnd) ==
    IF runEnd >= i + 4
    THEN LabeledGroup(s, runEnd + 1, WordEnds(s, runEnd + 1, 4, "letters"))
    ELSE Undefined

\* /(?:name|naam)[\s:]+([A-Z][a-z]+(?:\s[A-Z][a-z]+){1,3})/i at index i:
\* group 1 of the match, if any
LabeledNameAt(s, i) ==
    IF i + 3 <= Len(s) /\ toLowerCase(SubSeq(s, i, i + 3)) \in {"name", "naam"}
    THEN LabeledAfter(s, i, LabelRunEnd(s, i + 4))
    ELSE Undefined

\* patterns.name[1]: match[1] of the leftmost match
LabeledName(line) ==
    FirstPattern([i \in 1..Len(line) |-> LabeledNameAt(line, i)], 1)

SpanLenOf(i, ends, after2, after3) ==
    IF Len(ends) >= 3 /\ after3 THEN ends[3] - i + 1
    ELSE IF Len(ends) >= 2 /\ after2 THEN ends[2] - i + 1
    ELSE 0

SpanLen(s, i, ends) ==
    SpanLenOf(i, ends,
              Len(ends) >= 2 /\ Boundary(s, ends[2] + 1),
              Len(ends) >= 3 /\ Boundary(s, ends[3] + 1))

\* /\b(W\sW(?:\sW)?)\b/ at index i, W the word of the mode: the match length
ProperSpanLen(s, i, mode) ==
    IF ~Boundary(s, i) THEN 0 ELSE SpanLen(s, i, WordEnds(s, i, 3, mode))

ProperSpan1Len(s, i) == ProperSpanLen(s, i, "proper")
ProperSpan3Len(s, i) == ProperSpanLen(s, i, "proper3")

\* patterns.name[2]: match[1] of the leftmost match
InlineName(line) == FirstOf(MatchAll(line, Lens(line, ProperSpan1Len)))

MinNameLen == 4
MaxNameLen == 35
MinLineLen == 4
MaxLineLen == 40

ValidName(nameCandidate) ==
    /\ Len(nameCandidate) >= MinNameLen
    /\ Len(nameCandidate) <= MaxNameLen
    /\ IsProperName(nameCandidate)
    /\ ~HasSkipName(toLowerCase(nameCandidate))

\* the validation of match[1] in the line pass
ValidCandidate(m) == IF m = Undefined THEN FALSE ELSE ValidName(trim(m[1]))

FirstCandidate(cands) ==
    IF Len(cands) = 0 THEN Undefined ELSE Some(trim(cands[1][1]))

\* the body of the line loop for one line: the name it supplies, if any
NameFromLine(line) ==
    IF \/ HasSkipName(toLowerCase(line))
       \/ \E i \in 1..Len(line) : IsDigit(Char(line, i))
       \/ Len(line) < MinLineLen
       \/ Len(line) > MaxLineLen
    THEN Undefined
    ELSE FirstCandidate(
            SelectSeq(<<WholeLineName(line), LabeledName(line), InlineName(line)>>,
                      ValidCandidate))

\* the line loop: the first line that supplies a name
NameFromLines(lines) == FirstPattern(Map(lines, NameFromLine), 1)

ValidFallbackNameNoDenylist(m) == Len(m) >= MinNameLen /\ Len(m) <= MaxNameLen

ValidFallbackName(m) ==
    /\ ~HasSkipName(toLowerCase(m))
    /\ Len(m) >= MinNameLen
    /\ Len(m) <= MaxNameLen

FallbackName(fullText) ==
    FirstOf(SelectSeq(MatchAll(fullText, Lens(fullText, ProperSpan3Len)), ValidFallbackName))

\* the fallback over the whole text
NameFromFullText(cleanedText) == FallbackName(ReplaceChars(cleanedText, "\n", " "))

ExtractName(cleanedText, lines) ==
    FirstPattern(<<NameFromLines(lines), NameFromFullText(cleanedText)>>, 1)

\* ExtractedData with no field present: {}
EmptyExtracted ==
    [name |-> Undefined, dateOfBirth |-> Undefined,
     idNumber |-> Undefined, phoneNumber |-> Undefined]

ExtractFields(cleanedText, lines, dob) ==
    IF dob.threw
    THEN [status |-> "TypeError", lines |-> lines, data |-> EmptyExtracted]
    ELSE [status |-> "returned", lines |-> lines,
          data |-> [name |-> ExtractName(cleanedText, lines),
                    dateOfBirth |-> dob.value,
                    idNumber |-> ExtractIdNumber(cleanedText),
                    phoneNumber |-> ExtractPhoneNumber(cleanedText)]]

ExtractCleaned(cleanedText) ==
    ExtractFields(cleanedText, LinesOf(cleanedText), ExtractDateOfBirth(cleanedText))

\* extractDataFromText: the record it returns, or the exception it throws;
\* lines is the line sequence it logs and iterates
extractDataFromText(text) == ExtractCleaned(cleanOCRText(text))

(***************************************************************************)
(* State of a freshly constructed wizard (the useState initial values).    *)
(***************************************************************************)
EmptyForm == [name |-> "", dateOfBirth |-> "", idNumber |-> "", phoneNumber |-> ""]

\* null
Null == << >>

FormInit ==
    /\ step = "upload"
    /\ extractedData = EmptyExtracted
    /\ formData = EmptyForm
    /\ verificationResults = Null
    /\ isProcessing = FALSE

UploadInit ==
    /\ isUploading = FALSE
    /\ uploadProgress = 0
    /\ uploadedFile = Null
    /\ previewUrl = ""

AsyncInit ==
    /\ ocr = << >>
    /\ timers = << >>
    /\ verify = Null
    /\ toast = ""
    /\ console = << >>

(***************************************************************************)
(* Verdict aggregator (IdVerificationForm, handleVerify).                  *)
(***************************************************************************)
\* Object.values(results): the values in the order the keys were created
ObjectValues(results) ==
    <<results.name, results.dateOfBirth, results.idNumber, results.phoneNumber,
      results.overall>>

\* Object.values(results).filter((match, index) => index < 4 && match).length
matchCount(results) ==
    Cardinality({i \in 1..5 : i - 1 < 4 /\ ObjectValues(results)[i]})

MatchThreshold == 3

WithOverallAllFour(results) == [results EXCEPT !.overall = matchCount(results) > MatchThreshold]

\* results.overall = matchCount >= 3
WithOverall(results) == [results EXCEPT !.overall = matchCount(results) >= MatchThreshold]

\* the results handleVerify stores for the data of its closure
VerifyResults(extracted, entered) ==
    WithOverall([name |-> compareFields(extracted.name, entered.name),
                 dateOfBirth |-> compareDates(extracted.dateOfBirth, entered.dateOfBirth),
                 idNumber |-> compareFields(extracted.idNumber, entered.idNumber),
                 phoneNumber |-> comparePhones(extracted.phoneNumber, entered.phoneNumber),
                 overall |-> FALSE])

(***************************************************************************)
(* The wizard: IdVerificationForm with its DocumentUpload child.           *)
(***************************************************************************)
\* what the OCR engine may read off the uploaded images
DocTexts ==
    {"Ravi Kumar\nDOB: 15/08/1990\n1234 5678 9012\n+91 9876543210",
     "Asha Rao\n02/01/1985",
     "Government of India"}

\* what the user may type into each field (the date input gives yyyy-mm-dd,
\* or free text where the browser has no date control)
FormValues ==
    [name |-> {"", "ravi kumar"},
     dateOfBirth |-> {"15/08/1990", "1990-08-15"},
     idNumber |-> {"199012345678"},
     phoneNumber |-> {"9876543210"}]

MaxFileSize == 10 * 1024 * 1024

Files == [type : {"image/png", "application/pdf"}, size : {MaxFileSize, MaxFileSize + 1}]

startsWith(s, prefix) == Len(s) >= Len(prefix) /\ SubSeq(s, 1, Len(prefix)) = prefix

Init ==
    /\ FormInit /\ UploadInit /\ AsyncInit
    /\ input = [op |-> "wizard"]
    /\ output = << >>

Wizard == input.op = "wizard"

\* DocumentUpload is rendered only in the upload step
Mounted == step = "upload"

Pending == Len(ocr) + Len(timers)

RemoveAt(seq, k) == SubSeq(seq, 1, k - 1) \o SubSeq(seq, k + 1, Len(seq))

\* the recognitions of an unmounted DocumentUpload no longer reach its state
Orphaned(calls) == [k \in 1..Len(calls) |-> [calls[k] EXCEPT !.live = FALSE]]

\* The step leaves 'upload': DocumentUpload unmounts and its state is lost (the
\* next mount starts from the useState initial values).
Unmount ==
    /\ isUploading' = FALSE
    /\ uploadProgress' = 0
    /\ uploadedFile' = Null
    /\ previewUrl' = ""

\* file.size >= 10 * 1024 * 1024 as the size test
handleFileSelectRejectsAtLimit(file) ==
    /\ Wizard /\ Mounted
    /\ uploadedFile = Null
    /\ Pending < MaxPending
    /\ IF ~startsWith(file.type, "image/")
       THEN /\ toast' = "Invalid File"
            /\ UNCHANGED <<uploadVars, ocr>>
       ELSE IF file.size >= MaxFileSize
       THEN /\ toast' = "File Too Large"
            /\ UNCHANGED <<uploadVars, ocr>>
       ELSE /\ uploadedFile' = <<file>>
            /\ previewUrl' = "blob:"
            /\ isUploading' = TRUE
            /\ uploadProgress' = 0
            /\ ocr' = Append(ocr, [file |-> file, live |-> TRUE])
            /\ UNCHANGED toast
    /\ UNCHANGED <<formVars, timers, verify, console, input, output>>

\* handleFileSelect, with the start of processDocument up to its await
handleFileSelect(file) ==
    /\ Wizard /\ Mounted
    /\ uploadedFile = Null
    /\ Pending < MaxPending
    /\ IF ~startsWith(file.type, "image/")
       THEN /\ toast' = "Invalid File"
            /\ UNCHANGED <<uploadVars, ocr>>
       ELSE IF file.size > MaxFileSize
       THEN /\ toast' = "File Too Large"
            /\ UNCHANGED <<uploadVars, ocr>>
       ELSE /\ uploadedFile' = <<file>>
            /\ previewUrl' = "blob:"
            /\ isUploading' = TRUE
            /\ uploadProgress' = 0
            /\ ocr' = Append(ocr, [file |-> file, live |-> TRUE])
            /\ UNCHANGED toast
    /\ UNCHANGED <<formVars, timers, verify, console, input, output>>

ProgressSteps == {50}

\* the logger callback of Tesseract.recognize
OcrProgress(k, percent) ==
    /\ Wizard
    /\ k \in 1..Len(ocr)
    /\ ocr[k].live
    /\ uploadProgress < percent
    /\ uploadProgress' = percent
    /\ UNCHANGED <<formVars, isUploading, uploadedFile, previewUrl, asyncVars, input, output>>

\* Object.values(extractedData).some(value => value && value.length > 0)
hasData(data) == \E f \in Fields : ~Falsy(data[f])

\* the console lines of processDocument after the await
ConsoleLines(failed, threw) ==
    IF failed THEN <<"Error processing document:">>
    ELSE IF threw THEN <<"Extracted text:", "Error processing document:">>
    ELSE <<"Extracted text:", "Extracted data:">>

\* setIsUploading(false) at the end of the try block
AfterRecognizeNoFinally(k, failed, r) ==
    /\ ocr' = RemoveAt(ocr, k)
    /\ console' = ConsoleLines(failed, ~failed /\ r.status = "TypeError")
    /\ IF failed \/ r.status = "TypeError"
       THEN /\ toast' = "Processing Error"
            /\ UNCHANGED <<uploadProgress, timers, isUploading>>
       ELSE IF ~hasData(r.data)
       THEN /\ toast' = "No Data Found"
            /\ isUploading' = (IF ocr[k].live THEN FALSE ELSE isUploading)
            /\ UNCHANGED <<uploadProgress, timers>>
       ELSE /\ uploadProgress' = (IF ocr[k].live THEN 100 ELSE uploadProgress)
            /\ timers' = Append(timers, r.data)
            /\ isUploading' = (IF ocr[k].live THEN FALSE ELSE isUploading)
            /\ UNCHANGED toast
    /\ UNCHANGED <<formVars, uploadedFile, previewUrl, verify, input, output>>

\* whatever extraction gave is handed on: no hasData test, and a failed
\* extraction counts as an empty record
AfterRecognizeForwardsEmpty(k, failed, r) ==
    /\ ocr' = RemoveAt(ocr, k)
    /\ console' = ConsoleLines(failed, ~failed /\ r.status = "TypeError")
    /\ IF failed
       THEN /\ toast' = "Processing Error"
            /\ UNCHANGED <<uploadProgress, timers>>
       ELSE /\ uploadProgress' = (IF ocr[k].live THEN 100 ELSE uploadProgress)
            /\ timers' = Append(timers, r.data)
            /\ UNCHANGED toast
    /\ isUploading' = (IF ocr[k].live THEN FALSE ELSE isUploading)
    /\ UNCHANGED <<formVars, uploadedFile, previewUrl, verify, input, output>>

\* processDocument after the await, for a recognition that threw (failed) or
\* gave the extraction result r
AfterRecognize(k, failed, r) ==
    /\ ocr' = RemoveAt(ocr, k)
    /\ console' = ConsoleLines(failed, ~failed /\ r.status = "TypeError")
    /\ IF failed \/ r.status = "TypeError"
       THEN /\ toast' = "Processing Error"
            /\ UNCHANGED <<uploadProgress, timers>>
       ELSE IF ~hasData(r.data)
       THEN /\ toast' = "No Data Found"
            /\ UNCHANGED <<uploadProgress, timers>>
       ELSE /\ uploadProgress' = IF ocr[k].live THEN 100 ELSE uploadProgress
            /\ timers' = Append(timers, r.data)
            /\ UNCHANGED toast
    /\ isUploading' = IF ocr[k].live THEN FALSE ELSE isUploading
    /\ UNCHANGED <<formVars, uploadedFile, previewUrl, verify, input, output>>

\* extractDataFromText(text) for each text the engine may read
Extraction == [text \in DocTexts |-> extractDataFromText(text)]

\* Tesseract.recognize resolves with a text
OcrResolves(k, text) ==
    /\ Wizard
    /\ k \in 1..Len(ocr)
    /\ AfterRecognize(k, FALSE, Extraction[text])

\* Tesseract.recognize rejects
OcrRejects(k) ==
    /\ Wizard
    /\ k \in 1..Len(ocr)
    /\ AfterRecognize(k, TRUE, [status |-> "none"])

\* the form is filled in from the extracted name
handleDocumentProcessedPrefill ==
    /\ Wizard
    /\ Len(timers) > 0
    /\ extractedData' = timers[1]
    /\ formData' = [formData EXCEPT
                      !.name = IF timers[1].name = Undefined THEN @
                               ELSE timers[1].name[1]]
    /\ step' = "form"
    /\ toast' = "Document Processed"
    /\ timers' = Tail(timers)
    /\ IF Mounted
       THEN Unmount /\ ocr' = Orphaned(ocr)
       ELSE UNCHANGED <<uploadVars, ocr>>
    /\ UNCHANGED <<verificationResults, isProcessing, verify, console,
                   input, output>>

\* the 500 ms timer fires: onDocumentProcessed(extractedData), which is
\* handleDocumentProcessed
handleDocumentProcessed ==
    /\ Wizard
    /\ Len(timers) > 0
    /\ extractedData' = timers[1]
    /\ step' = "form"
    /\ toast' = "Document Processed"
    /\ timers' = Tail(timers)
    /\ IF Mounted
       THEN Unmount /\ ocr' = Orphaned(ocr)
       ELSE UNCHANGED <<uploadVars, ocr>>
    /\ UNCHANGED <<formData, verificationResults, isProcessing, verify, console,
                   input, output>>

\* the inputs exist only in the form step
handleInputChange(field, value) ==
    /\ Wizard
    /\ step = "form"
    /\ formData[field] # value
    /\ formData' = [formData EXCEPT ![field] = value]
    /\ UNCHANGED <<step, extractedData, verificationResults, isProcessing,
                   uploadVars, asyncVars, input, output>>

\* the button is not disabled while a verification is in progress
handleVerifyWhileProcessing ==
    /\ Wizard
    /\ step = "form"
    /\ ~(formData.name = "" \/ formData.dateOfBirth = "" \/ formData.idNumber = "")
    /\ isProcessing' = TRUE
    /\ verify' = <<[extractedData |-> extractedData, formData |-> formData]>>
    /\ UNCHANGED <<step, extractedData, formData, verificationResults,
                   uploadVars, ocr, timers, toast, console, input, output>>

\* The Verify Identity button: handleVerify up to its await.  The rest of the
\* function runs with the extractedData and formData of the render whose
\* handler was called.
handleVerify ==
    /\ Wizard
    /\ step = "form"
    /\ ~(formData.name = "" \/ formData.dateOfBirth = "" \/ formData.idNumber = ""
         \/ isProcessing)
    /\ isProcessing' = TRUE
    /\ verify' = <<[extractedData |-> extractedData, formData |-> formData]>>
    /\ UNCHANGED <<step, extractedData, formData, verificationResults,
                   uploadVars, ocr, timers, toast, console, input, output>>

VerifyToast(results) ==
    IF results.overall THEN "Verification Successful" ELSE "Verification Failed"

\* the verdict is announced but not stored
StoreResultsToastOnly(results) ==
    /\ verificationResults' = verificationResults
    /\ toast' = VerifyToast(results)

StoreResults(results) ==
    /\ verificationResults' = <<results>>
    /\ toast' = VerifyToast(results)

\* the pairs of extracted and entered data a render of the wizard can hold
Closures ==
    [extractedData : {EmptyExtracted} \cup {Extraction[text].data : text \in DocTexts},
     formData : [name : FormValues.name \cup {""},
                 dateOfBirth : FormValues.dateOfBirth \cup {""},
                 idNumber : FormValues.idNumber \cup {""},
                 phoneNumber : FormValues.phoneNumber \cup {""}]]

\* the results handleVerify computes, tabulated for each closure
Verdicts ==
    {<<closure, VerifyResults(closure.extractedData, closure.formData)>> :
        closure \in Closures}

VerdictOf(closure) == (CHOOSE verdict \in Verdicts : verdict[1] = closure)[2]

\* handleVerify after the 1.5 s delay
handleVerifyResume ==
    /\ Wizard
    /\ verify # Null
    /\ StoreResults(VerdictOf(verify[1]))
    /\ step' = "results"
    /\ isProcessing' = FALSE
    /\ verify' = Null
    /\ IF Mounted
       THEN Unmount /\ ocr' = Orphaned(ocr)
       ELSE UNCHANGED <<uploadVars, ocr>>
    /\ UNCHANGED <<extractedData, formData, timers, console, input, output>>

\* Start Over, in the form step and in the results step
resetForm ==
    /\ Wizard
    /\ step = "form" \/ (step = "results" /\ verificationResults # Null)
    /\ step' = "upload"
    /\ extractedData' = EmptyExtracted
    /\ formData' = EmptyForm
    /\ verificationResults' = Null
    /\ UNCHANGED <<isProcessing, uploadVars, asyncVars, input, output>>

\* the Upload Different Document button
UploadDifferentDocument ==
    /\ Wizard /\ Mounted
    /\ uploadedFile # Null /\ previewUrl # "" /\ ~isUploading
    /\ uploadedFile' = Null
    /\ previewUrl' = ""
    /\ uploadProgress' = 0
    /\ UNCHANGED <<formVars, isUploading, asyncVars, input, output>>

Next ==
    \/ \E file \in Files : handleFileSelect(file)
    \/ \E k \in 1..MaxPending, percent \in ProgressSteps : OcrProgress(k, percent)
    \/ \E k \in 1..MaxPending, text \in DocTexts : OcrResolves(k, text)
    \/ \E k \in 1..MaxPending : OcrRejects(k)
    \/ handleDocumentProcessed
    \/ \E field \in Fields : \E value \in FormValues[field] : handleInputChange(field, value)
    \/ handleVerify
    \/ handleVerifyResume
    \/ resetForm
    \/ UploadDifferentDocument

Spec == Init /\ [][Next]_vars

\* The 1.5 s timer of handleVerify is never cleared, so its continuation runs
\* once it is due.
SpecLive == Spec /\ WF_vars(handleVerifyResume)

\* C1: the stored overall flag is true exactly when at least 3 of the 4
\* per-field flags are true; the overall flag is not counted.
C1_OverallIffThreeOfFour ==
    verificationResults # Null =>
        LET r == verificationResults[1]
            n == Cardinality({f \in Fields : r[f]})
        IN  r.overall = (n \in {3, 4})

C1_Witness ==
    /\ verificationResults # Null
    /\ verificationResults[1] =
          [name |-> TRUE, dateOfBirth |-> FALSE, idNumber |-> TRUE,
           phoneNumber |-> TRUE, overall |-> TRUE]

\* C16: after Start Over no verdict appears until a verify action is
\* triggered again.  Verify can be triggered only in the form step, so in the
\* upload step, which follows every reset, no step stores results or shows
\* the results step.
C16_NoVerdictAfterReset ==
    [][step = "upload" => (step' # "results" /\ verificationResults' = Null)]_vars

\* C17: in the results step each stored per-field flag is the field's
\* comparator applied to the extractedData and formData held in state, the
\* pair displayed beside the flags.
C17_ResultsMatchDisplayedData ==
    (step = "results" /\ verificationResults # Null) =>
        \A f \in Fields :
            verificationResults[1][f] = compare(f, extractedData[f], formData[f])

\* C18: once handleDocumentProcessed has stored an extractedData, only
\* resetForm (the one step into the upload step) changes it: in the form and
\* results steps no other step replaces it or leaves the results step.
C18_ExtractedDataKept ==
    [][(step \in {"form", "results"} /\ step' # "upload") =>
          (extractedData' = extractedData /\ (step = "results" => step' = "results"))]_vars

\* the texts in which extraction finds no field: it gives no record, or a
\* record with every field absent
NoFieldTexts ==
    {text \in DocTexts :
        \/ Extraction[text].status # "returned"
        \/ \A f \in Fields : Extraction[text].data[f] = Undefined}

\* C19: when the recognition succeeds and extraction finds no field,
\* onDocumentProcessed is not scheduled: the step and extractedData stay as
\* they are, and the DocumentUpload that started the recognition is still in
\* the upload step with isUploading false.
C19_NoDataHaltsWorkflow ==
    [][\A k \in 1..MaxPending, text \in NoFieldTexts :
          OcrResolves(k, text) =>
              /\ timers' = timers /\ step' = step /\ extractedData' = extractedData
              /\ ocr[k].live => (step' = "upload" /\ isUploading' = FALSE)]_vars

C19_Witness ==
    /\ console = <<"Extracted text:", "Error processing document:">>
    /\ step = "upload" /\ extractedData = EmptyExtracted
    /\ uploadedFile # Null /\ ~isUploading
    /\ ocr = << >> /\ timers = << >>

\* C20: when the recognition fails, extraction is not attempted and
\* onDocumentProcessed is not scheduled: the failure is reported once, the
\* step, extractedData and formData stay as they are, and the DocumentUpload
\* that started the recognition is still in the upload step with isUploading
\* false.
C20_OcrFailureHaltsWorkflow ==
    [][\A k \in 1..MaxPending :
          OcrRejects(k) =>
              /\ timers' = timers /\ step' = step
              /\ extractedData' = extractedData /\ formData' = formData
              /\ console' = <<"Error processing document:">>
              /\ toast' = "Processing Error"
              /\ ocr[k].live => (step' = "upload" /\ isUploading' = FALSE)]_vars

C20_Witness ==
    /\ console = <<"Error processing document:">>
    /\ toast = "Processing Error"
    /\ step = "upload" /\ extractedData = EmptyExtracted
    /\ uploadedFile # Null /\ ~isUploading
    /\ ocr = << >> /\ timers = << >>

\* the media type is an image type, and the size is at most 10 MiB
ImageType(file) == Len(file.type) >= 6 /\ SubSeq(file.type, 1, 6) = "image/"

WithinTenMiB(file) == file.size <= 10485760

\* C21: a selected file that is not of an image type or is larger than
\* 10 MiB starts no recognition and leaves uploadedFile, previewUrl,
\* isUploading and uploadProgress as they are; an image of 10 MiB or less,
\* exactly 10 MiB included, is taken and its recognition started.
C21_RejectedFileNeverProcessed ==
    [][\A file \in Files :
          handleFileSelect(file) =>
              IF ImageType(file) /\ WithinTenMiB(file)
              THEN /\ uploadedFile' = <<file>> /\ isUploading' = TRUE
                   /\ Len(ocr') = Len(ocr) + 1
              ELSE /\ ocr' = ocr /\ timers' = timers
                   /\ uploadedFile' = uploadedFile /\ previewUrl' = previewUrl
                   /\ isUploading' = isUploading
                   /\ uploadProgress' = uploadProgress]_vars

C21_Witness ==
    /\ toast = "File Too Large"
    /\ uploadedFile = <<[type |-> "image/png", size |-> 10485760]>>
    /\ isUploading /\ Len(ocr) = 1

\* C22: the entered form is never filled in from the extraction: a step that
\* changes formData is a handleInputChange or a resetForm, the arrival of
\* the extracted data leaves formData as it is, and handleInputChange sets
\* the named field to the typed value and leaves the other three fields.
C22_FormDataOnlyByInputOrReset ==
    [][/\ formData' # formData =>
            \/ resetForm
            \/ \E field \in Fields : \E value \in FormValues[field] :
                  handleInputChange(field, value)
       /\ handleDocumentProcessed => formData' = formData
       /\ \A field \in Fields : \A value \in FormValues[field] :
            handleInputChange(field, value) =>
                /\ formData'[field] = value
                /\ \A other \in Fields \ {field} :
                      formData'[other] = formData[other]]_vars

C22_Witness ==
    /\ step = "form"
    /\ extractedData.name = <<"Ravi Kumar">>
    /\ extractedData.idNumber # Undefined
    /\ formData = [EmptyForm EXCEPT !.dateOfBirth = "1990-08-15"]

\* C24: in every reachable state the results step has a verdict to show:
\* step = "results" implies verificationResults is not null, whatever the
\* order of verify, Start Over and the arrival of a processed document.
C24_ResultsStepHasResults == step = "results" => verificationResults # Null

\* the results step entered by a verify that outlived a Start Over
C24_Witness ==
    /\ step = "results"
    /\ verificationResults # Null
    /\ extractedData = EmptyExtracted /\ formData = EmptyForm
    /\ verify = Null /\ Len(timers) > 0

\* C25: a verify starts only with name, date of birth and ID number all
\* entered and no verification in progress, so at most one is in flight;
\* and every verify that has started completes: its continuation stores a
\* verdict and sets isProcessing back to false.
C25_VerifyGuardedAndCompletes ==
    /\ [](isProcessing <=> verify # Null)
    /\ [][handleVerify =>
            /\ formData.name # "" /\ formData.dateOfBirth # ""
            /\ formData.idNumber # ""
            /\ ~isProcessing /\ verify = Null
            /\ isProcessing' /\ verify' # Null]_vars
    /\ [][(verify # Null /\ verify' = Null) =>
            (~isProcessing' /\ verificationResults' # Null)]_vars
    /\ (verify # Null) ~> (verify = Null /\ ~isProcessing /\ verificationResults # Null)

\* a verification in flight
C25_Witness ==
    /\ isProcessing /\ verify # Null
    /\ verify[1].formData = formData
    /\ formData.name # "" /\ formData.dateOfBirth # "" /\ formData.idNumber # ""
    /\ verificationResults # Null

(***************************************************************************)
(* The comparators as pure functions: every field, every pair of an        *)
(* optional extracted value and an entered string.                         *)
(***************************************************************************)
CmpAlphabet == {"a", "A", "1", "2", " ", "-"}

RECURSIVE StringsOfLen(_, _)
StringsOfLen(alphabet, n) ==
    IF n = 0 THEN {""}
    ELSE {s \o c : s \in StringsOfLen(alphabet, n - 1), c \in alphabet}

StringsUpTo(alphabet, n) == UNION {StringsOfLen(alphabet, k) : k \in 0..n}

\* the values of the specification's scenarios
CmpSamples ==
    {"Ravi Kumar", "ravi kumar sharma", "9876543210", "+919876543210",
     "01/02/2000", "02/01/2000", "1990", "01/01/1990", "123412341234",
     "1234", " -", "abc"}

CmpStrings == StringsUpTo(CmpAlphabet, MaxLen) \cup CmpSamples

CmpInit ==
    /\ FormInit /\ UploadInit /\ AsyncInit
    /\ input \in [op : {"compare"}, field : Fields,
                  extracted : {Undefined} \cup {Some(s) : s \in CmpStrings},
                  entered : CmpStrings]
    /\ output = << >>

\* one comparator call of handleVerify
Compare ==
    /\ input.op = "compare"
    /\ output = << >>
    /\ output' = <<compare(input.field, input.extracted, input.entered)>>
    /\ UNCHANGED <<formVars, uploadVars, asyncVars, input>>

CmpNext == Compare

SpecCompare == CmpInit /\ [][CmpNext]_vars

Compared == input.op = "compare" /\ output # << >>

(***************************************************************************)
(* The statements of the specification, written without the code's         *)
(* helpers.                                                                *)
(***************************************************************************)
RECURSIVE OnlyDigits(_)
OnlyDigits(s) ==
    IF Len(s) = 0 THEN ""
    ELSE LET last == Char(s, Len(s))
         IN  OnlyDigits(SubSeq(s, 1, Len(s) - 1))
             \o (IF last \in {"0", "1", "2", "3", "4", "5", "6", "7", "8", "9"}
                 THEN last ELSE "")

RECURSIVE LowerAlnum(_)
LowerAlnum(s) ==
    IF Len(s) = 0 THEN ""
    ELSE LET last == Char(s, Len(s))
             low == LowerOf(last)
         IN  LowerAlnum(SubSeq(s, 1, Len(s) - 1))
             \o (IF IsLower(low) \/ IsDigit(low) THEN low ELSE "")

IsSubstring(t, s) ==
    \E i \in 1..(Len(s) + 1) : \E j \in (i - 1)..Len(s) : SubSeq(s, i, j) = t

EqualOrContained(a, b) == a = b \/ IsSubstring(a, b) \/ IsSubstring(b, a)

BothGiven == ~Falsy(input.extracted) /\ input.entered # ""

\* C2: the comparator of every field returns false when the extracted value
\* is absent or empty, or the entered value is empty.
C2_MissingNeverMatches ==
    (Compared /\ ~BothGiven) => output[1] = FALSE

C2_Witness ==
    /\ Compared
    /\ input.field = "name"
    /\ input.extracted = Some("a ")
    /\ input.entered = ""
    /\ output[1] = FALSE

\* C3 as stated: for name and ID number, both values given, the comparator is
\* true exactly when the lower-cased alphanumeric forms are equal or one
\* contains the other, with or without a space in the values.  (Stated for
\* values that keep a letter or a digit; the others are the subject of C4.)
C3_ContainmentAlways ==
    (/\ Compared /\ BothGiven /\ input.field \in {"name", "idNumber"}
     /\ LowerAlnum(input.extracted[1]) # "" /\ LowerAlnum(input.entered) # "") =>
        output[1] = EqualOrContained(LowerAlnum(input.extracted[1]),
                                     LowerAlnum(input.entered))

\* C3 amended: containment counts only when one of the two raw values
\* contains a space character; without any space the lower-cased
\* alphanumeric forms must be equal.
C3_ContainmentOnlyWithSpace ==
    (Compared /\ BothGiven /\ input.field \in {"name", "idNumber"}) =>
        LET a == LowerAlnum(input.extracted[1])
            b == LowerAlnum(input.entered)
            spaced == IsSubstring(" ", input.extracted[1])
                      \/ IsSubstring(" ", input.entered)
        IN  output[1] = IF spaced THEN EqualOrContained(a, b) ELSE a = b

C3_Witness ==
    /\ Compared
    /\ input.field = "name"
    /\ input.extracted = Some("Ravi Kumar")
    /\ input.entered = "ravi kumar sharma"
    /\ output[1] = TRUE

\* C4: an entered value that is not empty but keeps no character under the
\* field's normalization never matches, whatever was extracted.
C4_MalformedNeverMatches ==
    (Compared /\ input.entered # "") =>
        LET kept == IF input.field \in {"name", "idNumber"}
                    THEN LowerAlnum(input.entered)
                    ELSE OnlyDigits(input.entered)
        IN  kept = "" => output[1] = FALSE

\* C5: for the date field, both values given, the comparator is true exactly
\* when the digit-only forms are identical.
C5_DateExactDigits ==
    /\ (Compared /\ BothGiven /\ input.field = "dateOfBirth") =>
          output[1] = (OnlyDigits(input.extracted[1]) = OnlyDigits(input.entered))
    /\ (Compared /\ input.field = "dateOfBirth"
          /\ << input.extracted, input.entered >> \in
                { <<Some("01/02/2000"), "02/01/2000">>,
                  <<Some("1990"), "01/01/1990">>,
                  <<Some("01/01/1990"), "1990">> }) =>
          output[1] = FALSE

C5_Witness ==
    /\ Compared
    /\ input.field = "dateOfBirth"
    /\ input.extracted = Some("1990")
    /\ input.entered = "01/01/1990"
    /\ output[1] = FALSE

\* C6: for the phone field, both values given, the comparator is true exactly
\* when the digit-only forms are equal or one is a contiguous substring of
\* the other.
C6_PhoneContainment ==
    /\ (Compared /\ BothGiven /\ input.field = "phoneNumber") =>
          output[1] = EqualOrContained(OnlyDigits(input.extracted[1]),
                                       OnlyDigits(input.entered))
    /\ (Compared /\ input.field = "phoneNumber"
          /\ input.extracted = Some("9876543210")
          /\ input.entered = "+919876543210") => output[1] = TRUE

C6_Witness ==
    /\ Compared
    /\ input.field = "phoneNumber"
    /\ input.extracted = Some("9876543210")
    /\ input.entered = "+919876543210"
    /\ output[1] = TRUE

\* C7: the name/ID comparator is symmetric: the result for extracted a and
\* entered b is the result for extracted b and entered a.
C7_Symmetric ==
    (Compared /\ input.field \in {"name", "idNumber"} /\ input.extracted # Undefined) =>
        output[1] = compareFields(Some(input.entered), input.extracted[1])

C7_Witness ==
    /\ Compared
    /\ input.field = "name"
    /\ input.extracted = Some("ravi kumar sharma")
    /\ input.entered = "Ravi Kumar"
    /\ output[1] = TRUE

(***************************************************************************)
(* The extractor as a pure function of the OCR text.                       *)
(***************************************************************************)
\* lines an OCR engine may read off a card
RawLines ==
    {"Government of India", "Ravi Kumar", "DOB: 15/08/1990", "01-02-2015",
     "Born 1985", "Year 2015", "1234 5678 9012", "+91 9876543210", "ab", ""}

RECURSIVE TextsOfLines(_)
TextsOfLines(n) ==
    IF n = 0 THEN {""}
    ELSE IF n = 1 THEN RawLines
    ELSE {t \o "\n" \o l : t \in TextsOfLines(n - 1), l \in RawLines}

\* whole card texts around the identifier, phone, date and name rules
SampleTexts ==
    {"1234 1234 1234 1/1/2000", "123412341234 1/1/2000", "12345678 9012 1/1/2000",
     "1234567890123 1/1/2000", "12345678901 1/1/2000", "1/1/2000 1234 1234",
     "1/1/2000 123 1234 1234 1234 5678", "1/1/2000 A1234 1234 1234",
     "OOOO 1234 1234 1/1/2000",
     "9876543210 1/1/2000", "+91 9876543210 1/1/2000", "+91-9876543210 1/1/2000",
     "+919876543210 1/1/2000", "98765 43210 1/1/2000", "98765-43210 1/1/2000",
     "0123456789 1/1/2000", "5123456789 1/1/2000", "+91 5123456789 1/1/2000",
     "98765432101 1/1/2000", "0123456789 7123456789 1/1/2000",
     "01/02/2015 03/04/2000", "01-02-2000 03/04/2015", "01-02-2000 03/04/2001",
     "1/1/1900", "31/12/2010", "1/1/2011 2/2/1899 3-3-1950", "1/1/1899",
     "1/13/2011", "011/02/2000 5-6-1999 7-8-1998",
     "DOB: 01-02-1990 03/04/2001", "born 5-6-1980 1985 7/8/1991",
     "dob 1/2-1990 3/4/1991 5/6/1992", "1985 born 5/6-1980 7-8-1991",
     "Government of India Ravi Kumar 1/1/2000", "Identity Card Ravi 1/1/2000",
     "Ravi Kumar aadhaar", "Name: Asha Rao", "name: asha rao", "RAVI KUMAR 1/1/2000",
     "Ravi kumar Das Gupta Roy Sen 1/1/2000", "Ab Cd Efg Hij 1/1/2000",
     "1/1/2000 Pan Card Asha Rao Sen", "Voter Id Asha 1/1/2000"}

OcrTexts == UNION {TextsOfLines(n) : n \in 0..MaxLines} \cup SampleTexts

ExtInit ==
    /\ FormInit /\ UploadInit /\ AsyncInit
    /\ input \in [op : {"extract"}, text : OcrTexts]
    /\ output = << >>

\* one call of extractDataFromText: it returns a record or throws
Extract ==
    /\ input.op = "extract"
    /\ output = << >>
    /\ output' = <<extractDataFromText(input.text)>>
    /\ UNCHANGED <<formVars, uploadVars, asyncVars, input>>

ExtNext == Extract

SpecExtract == ExtInit /\ [][ExtNext]_vars

Extracted == input.op = "extract" /\ output # << >>

\* the text as the date patterns see it: whitespace runs as one space
Flat(text) == trim(CollapseSpace(text))

YearInRange(y) == parseInt(y) >= 1900 /\ parseInt(y) <= 2010

\* a date d/m/yyyy or d-m-yyyy with its year in [1900, 2010] starts at i
ValidDelimitedDateAt(s, i) ==
    \E sep \in {"/", "-"} :
        /\ DateLen(s, i, sep) > 0
        /\ YearInRange(Last(SubSeq(s, i, i + DateLen(s, i, sep) - 1), 4))

HasValidDelimitedDate(s) == \E i \in 1..Len(s) : ValidDelimitedDateAt(s, i)

\* a standalone four-digit token within [1900, 2010] starts at i
YearTokenAt(s, i) ==
    /\ DigitRunLen(s, i, 4) > 0
    /\ YearInRange(SubSeq(s, i, i + 3))

\* C8: extraction never raises; it returns a record for every OCR text, also
\* for a text with no valid slash or dash date.
C8_ExtractionNeverRaises ==
    Extracted => output[1].status = "returned"

\* C9: with no valid delimiter-separated date but a standalone year token in
\* [1900, 2010] in the text, dateOfBirth is the first such token; a year
\* outside the range is never returned.
C9_BareYearFallback ==
    Extracted =>
        LET s == Flat(input.text)
            dob == output[1].data.dateOfBirth
        IN  /\ (~HasValidDelimitedDate(s) /\ \E i \in 1..Len(s) : YearTokenAt(s, i)) =>
                 LET i == CHOOSE k \in 1..Len(s) :
                              /\ YearTokenAt(s, k)
                              /\ \A m \in 1..(k - 1) : ~YearTokenAt(s, m)
                 IN  /\ output[1].status = "returned"
                     /\ dob = Some(SubSeq(s, i, i + 3))
            /\ (dob # Undefined /\ Len(dob[1]) = 4) => YearInRange(dob[1])

Returned == Extracted /\ output[1].status = "returned"

WordChars == "ABCDEFGHIJKLMNOPQRSTUVWXYZabcdefghijklmnopqrstuvwxyz0123456789_"

Digits == "0123456789"

\* the character at index i, "" outside the text
At(s, i) == IF i >= 1 /\ i <= Len(s) THEN SubSeq(s, i, i) ELSE ""

\* no word character at index i (also outside the text)
NoWordAt(s, i) == At(s, i) = "" \/ ~InStr(At(s, i), WordChars)

DigitRun(s, i, n) ==
    i >= 1 /\ i + n - 1 <= Len(s) /\ \A k \in i..(i + n - 1) : InStr(SubSeq(s, k, k), Digits)

\* three groups of four digits, the second a further, the third b further
\* (0: adjoining, 1: after one space), standing alone from i
IdGroups(s, i, a, b) ==
    /\ NoWordAt(s, i - 1)
    /\ DigitRun(s, i, 4)
    /\ a = 1 => At(s, i + 4) = " "
    /\ DigitRun(s, i + 4 + a, 4)
    /\ b = 1 => At(s, i + 8 + a) = " "
    /\ DigitRun(s, i + 8 + a + b, 4)
    /\ NoWordAt(s, i + 12 + a + b)

IdGroupsAt(s, i) == \E a \in {0, 1}, b \in {0, 1} : IdGroups(s, i, a, b)

FirstIdGroups(s) ==
    LET i == CHOOSE k \in 1..Len(s) :
                 IdGroupsAt(s, k) /\ \A m \in 1..(k - 1) : ~IdGroupsAt(s, m)
    IN  OnlyDigits(SubSeq(s, i, IF i + 13 <= Len(s) THEN i + 13 ELSE Len(s)))

\* C12: a returned idNumber is 12 decimal digits: the digits of the first
\* three 4-digit groups, adjoining or one space apart, of the normalized
\* text; a text without such groups gives no idNumber.
C12_IdNumberTwelveDigits ==
    Returned =>
        LET s == cleanOCRText(input.text)
            id == output[1].data.idNumber
        IN  /\ id # Undefined => (Len(id[1]) = 12 /\ OnlyDigits(id[1]) = id[1])
            /\ IF \E i \in 1..Len(s) : IdGroupsAt(s, i)
               THEN id = Some(SubSeq(FirstIdGroups(s), 1, 12))
               ELSE id = Undefined

C12_Witness ==
    /\ Returned
    /\ input.text = "1234 1234 1234 1/1/2000"
    /\ output[1].data.idNumber = Some("123412341234")

\* ten digits from i, the first of them 6 to 9, in one run (sep = 0) or as
\* five and five around one space or dash (sep = 1)
MobileDigitsAt(s, i, sep) ==
    /\ InStr(At(s, i), "6789")
    /\ DigitRun(s, i, 5)
    /\ sep = 1 => InStr(At(s, i + 5), " -")
    /\ DigitRun(s, i + 5 + sep, 5)

MobileDigits(s, i, sep) == SubSeq(s, i, i + 4) \o SubSeq(s, i + 5 + sep, i + 9 + sep)

\* C13: a returned phoneNumber is 10 decimal digits, the first of them 6, 7,
\* 8 or 9, read off the text without prefix, space or dash; a 10-digit run
\* that starts with 0 to 5 is never returned.
C13_PhoneTenDigitsMobile ==
    (Returned /\ output[1].data.phoneNumber # Undefined) =>
        LET s == cleanOCRText(input.text)
            phone == output[1].data.phoneNumber[1]
        IN  /\ Len(phone) = 10
            /\ OnlyDigits(phone) = phone
            /\ InStr(SubSeq(phone, 1, 1), "6789")
            /\ \E i \in 1..Len(s), sep \in {0, 1} :
                   MobileDigitsAt(s, i, sep) /\ MobileDigits(s, i, sep) = phone

C13_Witness ==
    /\ Returned
    /\ input.text = "0123456789 7123456789 1/1/2000"
    /\ output[1].data.phoneNumber = Some("7123456789")

\* the number a run of four digits from i writes
YearAt(s, i) ==
    LET d(k) == (CHOOSE v \in 1..10 : SubSeq(Digits, v, v) = At(s, i + k)) - 1
    IN  1000 * d(0) + 100 * d(1) + 10 * d(2) + d(3)

\* a date of a day digits, sep, b month digits, sep and a four-digit year,
\* standing alone from i
DateShape(s, i, sep, a, b) ==
    /\ NoWordAt(s, i - 1)
    /\ DigitRun(s, i, a)
    /\ At(s, i + a) = sep
    /\ DigitRun(s, i + a + 1, b)
    /\ At(s, i + a + b + 1) = sep
    /\ DigitRun(s, i + a + b + 2, 4)
    /\ NoWordAt(s, i + a + b + 6)

\* such a date with its year within [1900, 2010]
BirthDateShape(s, i, sep, a, b) ==
    /\ DateShape(s, i, sep, a, b)
    /\ YearAt(s, i + a + b + 2) >= 1900
    /\ YearAt(s, i + a + b + 2) <= 2010

BirthDateAt(s, i, sep) == \E a \in {1, 2}, b \in {1, 2} : BirthDateShape(s, i, sep, a, b)

HasBirthDate(s, sep) == \E i \in 1..Len(s) : BirthDateAt(s, i, sep)

\* the first date with the separator sep and a year within the range
FirstBirthDate(s, sep) ==
    LET i == CHOOSE k \in 1..Len(s) :
                 BirthDateAt(s, k, sep) /\ \A m \in 1..(k - 1) : ~BirthDateAt(s, m, sep)
        ab == CHOOSE p \in {1, 2} \X {1, 2} : BirthDateShape(s, i, sep, p[1], p[2])
    IN  SubSeq(s, i, i + ab[1] + ab[2] + 5)

CountOf(s, chars) == Cardinality({k \in 1..Len(s) : InStr(SubSeq(s, k, k), chars)})

\* C14: a returned delimiter-separated dateOfBirth has exactly 3 components
\* and a year within [1900, 2010]; it is the first candidate of the text with
\* such a year, the candidates with a year outside the range being skipped.
C14_DateYearInRange ==
    (Returned /\ output[1].data.dateOfBirth # Undefined) =>
        LET s == cleanOCRText(input.text)
            dob == output[1].data.dateOfBirth[1]
            n == Len(dob)
        IN  CountOf(dob, "/-") > 0 =>
              /\ CountOf(dob, "/-") = 2
              /\ DigitRun(dob, n - 3, 4) /\ InStr(At(dob, n - 4), "/-")
              /\ YearAt(dob, n - 3) >= 1900 /\ YearAt(dob, n - 3) <= 2010
              /\ dob = IF HasBirthDate(s, "/") THEN FirstBirthDate(s, "/")
                       ELSE FirstBirthDate(s, "-")

\* C23: the slash pattern is tried before the dash pattern, the labeled
\* pattern and the bare year, and the pattern order wins over the position
\* in the text: a text with a slash-separated date whose year is within
\* [1900, 2010] gives the first such slash date, whatever dash-separated,
\* labeled or bare-year date stands before it; without one, a text with such
\* a dash-separated date gives the first such dash date.
C23_SlashDateWinsOverPosition ==
    Extracted =>
        LET s == cleanOCRText(input.text)
        IN  /\ HasBirthDate(s, "/") =>
                  /\ output[1].status = "returned"
                  /\ output[1].data.dateOfBirth = Some(FirstBirthDate(s, "/"))
            /\ (~HasBirthDate(s, "/") /\ HasBirthDate(s, "-")) =>
                  /\ output[1].status = "returned"
                  /\ output[1].data.dateOfBirth = Some(FirstBirthDate(s, "-"))

C23_Witness ==
    /\ Returned
    /\ input.text = "born 5-6-1980 1985 7/8/1991"
    /\ output[1].data.dateOfBirth = Some("7/8/1991")

C14_Witness ==
    /\ Returned
    /\ input.text = "1/1/2011 2/2/1899 3-3-1950"
    /\ output[1].data.dateOfBirth = Some("3-3-1950")

Capitals == "ABCDEFGHIJKLMNOPQRSTUVWXYZ"

Smalls == "abcdefghijklmnopqrstuvwxyz"

\* the text in lower case
RECURSIVE LowerText(_)
LowerText(s) ==
    IF Len(s) = 0 THEN ""
    ELSE LowerText(SubSeq(s, 1, Len(s) - 1)) \o LowerOf(At(s, Len(s)))

Denylisted(s) == \E k \in 1..Len(skipNames) : IsSubstring(skipNames[k], LowerText(s))

\* 2 to 4 words, one space apart, each a capital and then small letters
ProperWords(s) ==
    /\ InStr(At(s, 1), Capitals)
    /\ InStr(At(s, Len(s)), Smalls)
    /\ CountOf(s, " ") \in 1..3
    /\ \A k \in 1..Len(s) :
          \/ InStr(At(s, k), Smalls)
          \/ InStr(At(s, k), Capitals)
                /\ (k = 1 \/ At(s, k - 1) = " ") /\ InStr(At(s, k + 1), Smalls)
          \/ At(s, k) = " " /\ InStr(At(s, k + 1), Capitals)

NameLike(s) == ProperWords(s) /\ ~Denylisted(s) /\ CountOf(s, Digits) = 0

\* C15: a returned name has no denylist phrase in its lower-cased form, no
\* digit, and 2 to 4 proper-case words; and the line pass takes no name from
\* a line with a denylist phrase, and only names of that form.
C15_NameProperAndNotDenylisted ==
    /\ (Returned /\ output[1].data.name # Undefined) =>
           NameLike(output[1].data.name[1])
    /\ Extracted =>
           \A k \in 1..Len(output[1].lines) :
              LET fromLine == NameFromLine(output[1].lines[k])
              IN  /\ Denylisted(output[1].lines[k]) => fromLine = Undefined
                  /\ fromLine # Undefined => NameLike(fromLine[1])

C15_Witness ==
    /\ Returned
    /\ input.text = "Government of India Ravi Kumar 1/1/2000"
    /\ output[1].data.name = Some("India Ravi Kumar")

\* the raw lines whose trimmed length is greater than 2
LongRawLines(text) == SelectSeq(Map(split(text, "\n"), trim), LongerThanTwo)

\* C10: the line sequence the name pass iterates (it is reached when the date
\* pass has not thrown) has one element per raw line of trimmed length > 2, in
\* the original order.
C10_LinesPreserved ==
    (Extracted /\ output[1].status = "returned") =>
        /\ Len(output[1].lines) = Len(LongRawLines(input.text))
        /\ \A k \in 1..Len(output[1].lines) :
              Len(output[1].lines[k]) = Len(LongRawLines(input.text)[k])

====
